---- MODULE Spec2Model ----
(***************************************************************************)
(* Smart-Scan-Storage: the document routes (upload/ingest, read, edit,     *)
(* delete), the access-control middleware and the bulk reads (list,        *)
(* search), as a state machine over the SQLite tables `users`,             *)
(* `documents` and `document_pages`.                                       *)
(*                                                                         *)
(* Node runs every handler to completion between two awaits, and           *)
(* better-sqlite3 is synchronous: an action is one such run.  The only     *)
(* await of the document routes is the OCR call of the upload handler.     *)
(***************************************************************************)
EXTENDS Integers, Sequences, FiniteSets, TLC

VARIABLES
  users,           \* table users: id -> role
  uploadDir,       \* the files in the upload directory: <<document id, file name>>
  workers,         \* the engine workers created by the OCR service, in order
  documents,       \* table documents: id -> row, for the rows that exist
  document_pages,  \* table document_pages: document id -> its rows, in insertion order
  nextDocId,       \* AUTOINCREMENT of documents.id
  nextPageId,      \* AUTOINCREMENT of document_pages.id
  uploads,         \* upload requests suspended at `await ocrService.processImage`
  res,             \* the last response sent, with the req.user it was computed for
  batchOf          \* history: document id -> req.files of the upload that created it

vars == <<users, uploadDir, workers, documents, document_pages, nextDocId, nextPageId, uploads, res, batchOf>>

store == <<documents, document_pages>>

----------------------------------------------------------------------------
(* Bounds *)

MaxDocs  == 1   \* documents ever created
MaxFiles == 2   \* files of one upload batch

DocIds == 1..MaxDocs

----------------------------------------------------------------------------
(* JavaScript / SQL values *)

Undefined == "undefined"   \* a key absent from req.body / a missing property
Null      == "null"        \* JSON null, SQL NULL
NoDoc     == 0             \* a request that names no document

----------------------------------------------------------------------------
(* permissions.js *)

ROLES == [ADMIN |-> "admin", MANAGER |-> "manager", USER |-> "user", GUEST |-> "guest"]

RoleSet == {ROLES.ADMIN, ROLES.MANAGER, ROLES.USER, ROLES.GUEST}

PermissionNames ==
  {"documents:view_own", "documents:view_all", "documents:create",
   "documents:edit_own", "documents:edit_all", "documents:delete_own",
   "documents:delete_all", "users:view", "users:manage", "stats:view",
   "admin:access"}

PERMISSIONS ==
  [p \in PermissionNames |->
     CASE p = "documents:view_own"   -> {ROLES.ADMIN, ROLES.MANAGER, ROLES.USER}
       [] p = "documents:view_all"   -> {ROLES.ADMIN, ROLES.MANAGER}
       [] p = "documents:create"     -> {ROLES.ADMIN, ROLES.MANAGER, ROLES.USER}
       [] p = "documents:edit_own"   -> {ROLES.ADMIN, ROLES.MANAGER, ROLES.USER}
       [] p = "documents:edit_all"   -> {ROLES.ADMIN, ROLES.MANAGER}
       [] p = "documents:delete_own" -> {ROLES.ADMIN, ROLES.MANAGER, ROLES.USER}
       [] p = "documents:delete_all" -> {ROLES.ADMIN}
       [] p = "users:view"           -> {ROLES.ADMIN, ROLES.MANAGER}
       [] p = "users:manage"         -> {ROLES.ADMIN}
       [] p = "stats:view"           -> {ROLES.ADMIN, ROLES.MANAGER}
       [] p = "admin:access"         -> {ROLES.ADMIN}]

\* req.user when no middleware has set it
NoUser == [id |-> 0, role |-> Undefined]

\* Mutant: every known role is allowed what the matrix lists for some role.
hasPermissionAnyRole(user, permission) ==
  user # NoUser /\ permission \in PermissionNames /\ user.role \in RoleSet

\* hasPermission(user, permission): the role is looked up in the explicit list.
hasPermission(user, permission) ==
  IF user = NoUser THEN FALSE
  ELSE IF permission \notin PermissionNames THEN FALSE
  ELSE user.role \in PERMISSIONS[permission]

\* A middleware either calls next() or ends the request with a status.
NextMw == 0

\* checkPermission(permission)(req, res, next)
checkPermission(user, permission) ==
  IF user = NoUser THEN 401
  ELSE IF ~hasPermission(user, permission) THEN 403
  ELSE NextMw

\* Mutant: the owner comparison is left out.
checkDocumentOwnershipNoOwner(user, documentId, docs) ==
  IF user.role = ROLES.ADMIN THEN NextMw
  ELSE IF user.role = ROLES.MANAGER THEN NextMw
  ELSE IF documentId \notin DOMAIN docs THEN 404
  ELSE NextMw

\* checkDocumentOwnership(req, res, next), reading the table `docs`
checkDocumentOwnership(user, documentId, docs) ==
  IF user.role = ROLES.ADMIN THEN NextMw
  ELSE IF user.role = ROLES.MANAGER THEN NextMw
  ELSE IF documentId \notin DOMAIN docs THEN 404
  ELSE IF docs[documentId].user_id # user.id THEN 403
  ELSE NextMw

----------------------------------------------------------------------------
(* auth.js and the identity of a request *)

UserIds == 1..4

\* authenticateToken: SELECT id, email, name FROM users; req.user = {id, email, name}.
\* The role column is not selected, so req.user.role is undefined.
authenticateToken(userId) == [id |-> userId, role |-> Undefined]

\* The identity provider of the design (section 6): {userId, role} with the stored role.
identityProvider(userId) == [id |-> userId, role |-> users[userId]]

\* The req.user records a handler may be given: those of the users stored.
ReqUsers ==
  {authenticateToken(u) : u \in DOMAIN users} \cup {identityProvider(u) : u \in DOMAIN users}

----------------------------------------------------------------------------
(* Uploaded files (multer) *)

\* The files the model uploads: an image, a PDF and a Word document.
FileSamples ==
  {[ext |-> ".png",  mimetype |-> "image/png"],
   [ext |-> ".pdf",  mimetype |-> "application/pdf"],
   [ext |-> ".docx", mimetype |-> "application/msword"]}

\* file.mimetype.includes('pdf') || file.originalname.toLowerCase().endsWith('.pdf')
isPdf(file) == file.mimetype = "application/pdf" \/ file.ext = ".pdf"

\* file.originalname ends with .doc, .docx, .txt, .rtf or .odt
isWord(file) == file.ext \in {".doc", ".docx", ".txt", ".rtf", ".odt"}

\* req.files: multer gives the k-th file a unique stored name; the model names it k.
RECURSIVE SeqsUpTo(_, _)
SeqsUpTo(S, n) ==
  IF n = 0 THEN {<<>>}
  ELSE LET shorter == SeqsUpTo(S, n - 1)
       IN shorter \cup {Append(q, x) : q \in {r \in shorter : Len(r) = n - 1}, x \in S}

Batches ==
  {[k \in 1..Len(q) |-> [filename |-> k, ext |-> q[k].ext, mimetype |-> q[k].mimetype]] :
     q \in SeqsUpTo(FileSamples, MaxFiles)}

----------------------------------------------------------------------------
(* Texts *)

\* The strings of the model, character by character.
DayChars(d) == <<"2", "0", "2", "4", "-", "0", "1", "-", "0", d>>
TimeChars == <<" ", "1", "0", ":", "0", "0", ":", "0", "0">>
Spell(s) ==
  CASE s = "" -> <<>>
    [] s = "100 USD" -> <<"1", "0", "0", " ", "U", "S", "D">>
    [] s = "1,5 USD" -> <<"1", ",", "5", " ", "U", "S", "D">>
    [] s = "usd" -> <<"u", "s", "d">>
    [] s = "u" -> <<"u">>
    [] s = "usd 1" -> <<"u", "s", "d", " ", "1">>
    [] s = "usd 2" -> <<"u", "s", "d", " ", "2">>
    [] s = "usd 3" -> <<"u", "s", "d", " ", "3">>
    [] s = "usd 4" -> <<"u", "s", "d", " ", "4">>
    [] s = "usd 5" -> <<"u", "s", "d", " ", "5">>
    [] s = "usd 6" -> <<"u", "s", "d", " ", "6">>
    [] s = "usd 7" -> <<"u", "s", "d", " ", "7">>
    [] s = "usd----------------------------------------------------------------------------------------------------" ->
         <<"u", "s", "d">> \o [k \in 1..100 |-> "-"]
    [] s = "jour" -> <<"j", "o", "u", "r">>
    [] s = "Document du jour" ->
         <<"D", "o", "c", "u", "m", "e", "n", "t", " ", "d", "u", " ", "j", "o", "u", "r">>
    [] s = "[]" -> <<"[", "]">>
    [] s = "dates" -> <<"d", "a", "t", "e", "s">>
    [] s = "amounts" -> <<"a", "m", "o", "u", "n", "t", "s">>
    [] s = "emails" -> <<"e", "m", "a", "i", "l", "s">>
    [] s = "phones" -> <<"p", "h", "o", "n", "e", "s">>
    [] s = "names" -> <<"n", "a", "m", "e", "s">>
    [] s = "keywords" -> <<"k", "e", "y", "w", "o", "r", "d", "s">>
    [] s = "general" -> <<"g", "e", "n", "e", "r", "a", "l">>
    [] s = "finance" -> <<"f", "i", "n", "a", "n", "c", "e">>
    [] s = "processing" -> <<"p", "r", "o", "c", "e", "s", "s", "i", "n", "g">>
    [] s = "ready" -> <<"r", "e", "a", "d", "y">>
    [] s = "archived" -> <<"a", "r", "c", "h", "i", "v", "e", "d">>
    [] s = "2024-01-02" -> DayChars("2")
    [] s = "2024-01-01 10:00:00" -> DayChars("1") \o TimeChars
    [] s = "2024-01-02 10:00:00" -> DayChars("2") \o TimeChars
    [] s = "2024-01-03 10:00:00" -> DayChars("3") \o TimeChars
    [] s = "2024-01-04 10:00:00" -> DayChars("4") \o TimeChars

DigitChars == <<"0", "1", "2", "3", "4", "5", "6", "7", "8", "9">>

\* An integer as SQLite turns it into text
RECURSIVE DecStr(_)
DecStr(n) ==
  IF n < 10 THEN <<DigitChars[n + 1]>>
  ELSE DecStr(n \div 10) \o <<DigitChars[(n % 10) + 1]>>

UpperCase ==
  <<"A", "B", "C", "D", "E", "F", "G", "H", "I", "J", "K", "L", "M",
    "N", "O", "P", "Q", "R", "S", "T", "U", "V", "W", "X", "Y", "Z">>
LowerCase ==
  <<"a", "b", "c", "d", "e", "f", "g", "h", "i", "j", "k", "l", "m",
    "n", "o", "p", "q", "r", "s", "t", "u", "v", "w", "x", "y", "z">>

\* LIKE folds the case of ASCII letters only.
Lower(c) ==
  IF \E i \in 1..Len(UpperCase) : UpperCase[i] = c
  THEN LowerCase[CHOOSE i \in 1..Len(UpperCase) : UpperCase[i] = c]
  ELSE c

\* q occurs in the text, the case of ASCII letters aside
Occurs(q, text) ==
  \E i \in 0..(Len(text) - Len(q)) :
    \A k \in 1..Len(q) : Lower(text[i + k]) = Lower(q[k])

\* x1 || ',' || x2 ...
RECURSIVE Join(_, _)
Join(items, sep) ==
  IF items = <<>> THEN <<>>
  ELSE IF Len(items) = 1 THEN items[1]
  ELSE items[1] \o sep \o Join(Tail(items), sep)

----------------------------------------------------------------------------
(* ocrService.extractMetadata *)

\* \d, \s, [a-z] with the flag i, and \w, over the characters of the model.
\* A character outside ASCII is named by its code point and is none of these.
IsDigit(c) == \E i \in 1..Len(DigitChars) : DigitChars[i] = c
IsSpace(c) == c = " "
IsLetter(c) == \E i \in 1..Len(LowerCase) : LowerCase[i] = Lower(c)
IsWordChar(c) == IsDigit(c) \/ IsLetter(c) \/ c = "_"

\* [\d\s,.]
AmountChar(c) == IsDigit(c) \/ IsSpace(c) \/ c = "," \/ c = "."

\* [\.\-\/]
DateSeparator(c) == c = "." \/ c = "-" \/ c = "/"

\* The character classes of the patterns, by name
InClass(class, c) ==
  CASE class = "\\d" -> IsDigit(c)
    [] class = "\\s" -> IsSpace(c)
    [] class = "[\\d\\s,.]" -> AmountChar(c)

\* The length of the longest run of characters of a class from position i on
RunLength(text, i, class) ==
  Cardinality({k \in i..Len(text) : \A m \in i..k : InClass(class, text[m])})

\* The token, in lower case, stands at position i (flag i of the patterns)
StartsWith(text, i, token) ==
  /\ i + Len(token) - 1 <= Len(text)
  /\ \A k \in 1..Len(token) : Lower(text[i + k - 1]) = token[k]

\* A pattern is matched piece by piece: each piece takes the position where it
\* starts and gives the position after it, or 0 when it does not match there
\* (or when the piece before it did not, its start being 0).
First(positions) ==
  IF positions = {} THEN 0 ELSE CHOOSE p \in positions : \A q \in positions : p <= q

\* \b at position i
BoundaryEnd(text, i) ==
  First({p \in {i} :
           /\ i > 0
           /\ (i > 1 /\ IsWordChar(text[i - 1])) # (i <= Len(text) /\ IsWordChar(text[i]))})

\* \d{a,b} followed by something that is no digit: the run of digits at i has
\* one of the lengths a..b
DigitsEnd(text, i, lengths) ==
  First({i + n : n \in {m \in lengths : i > 0 /\ RunLength(text, i, "\\d") = m}})

\* [\.\-\/]
SeparatorEnd(text, i) ==
  First({p \in {i + 1} : i > 0 /\ i <= Len(text) /\ DateSeparator(text[i])})

\* \s+ followed by something that is no space
SpacesEnd(text, i) ==
  First({i + n : n \in {m \in 1..Len(text) : i > 0 /\ RunLength(text, i, "\\s") = m}})

\* [\d\s,.]+ taken to its full length
AmountRunEnd(text, i) ==
  First({i + n : n \in {m \in 1..Len(text) : RunLength(text, i, "[\\d\\s,.]") = m}})

\* (?:rub(?:lej)?|RUB sign|RUB|USD|EUR|euro sign|pound sign|$) in the order the
\* alternatives are tried; the Russian word and the signs by code point.
Currencies ==
  <<<<"U+0440", "U+0443", "U+0431", "U+043B", "U+0435", "U+0439">>,
    <<"U+0440", "U+0443", "U+0431">>,
    <<"U+20BD">>,
    <<"r", "u", "b">>,
    <<"u", "s", "d">>,
    <<"e", "u", "r">>,
    <<"U+20AC">>,
    <<"U+00A3">>>>

\* The position after the k-th currency at position p; without a currency
\* (k = 0) the unescaped $ holds at the end of the text only.
CurrencyAfter(text, p, k) ==
  IF k # 0 THEN p + Len(Currencies[k])
  ELSE IF p = Len(text) + 1 THEN p ELSE 0

CurrencyEnd(text, p) ==
  CurrencyAfter(text, p,
                First({k \in 1..Len(Currencies) : p > 0 /\ StartsWith(text, p, Currencies[k])}))

\* /[\d\s,.]+\s*(?:...)/gi and /[\d\s,.]+(?:...)/gi matched at position i: no
\* currency begins with a character of the run and $ holds only at the end, so
\* both match exactly when a currency follows the longest run.
AmountEnd(text, i) == CurrencyEnd(text, AmountRunEnd(text, i))

\* /\b(\d{a}[\.\-\/]\d{b}[\.\-\/]\d{c})\b/g matched at position i, the three
\* quantifiers given as sets of lengths
NumericDateEnd(text, i, first, second, third) ==
  BoundaryEnd(text,
    DigitsEnd(text,
      SeparatorEnd(text,
        DigitsEnd(text,
          SeparatorEnd(text,
            DigitsEnd(text, BoundaryEnd(text, i), first)),
          second)),
      third))

\* The Russian month names in the genitive (by code point) and the English ones
RussianMonths ==
  <<<<"U+044F", "U+043D", "U+0432", "U+0430", "U+0440", "U+044F">>,
    <<"U+0444", "U+0435", "U+0432", "U+0440", "U+0430", "U+043B", "U+044F">>,
    <<"U+043C", "U+0430", "U+0440", "U+0442", "U+0430">>,
    <<"U+0430", "U+043F", "U+0440", "U+0435", "U+043B", "U+044F">>,
    <<"U+043C", "U+0430", "U+044F">>,
    <<"U+0438", "U+044E", "U+043D", "U+044F">>,
    <<"U+0438", "U+044E", "U+043B", "U+044F">>,
    <<"U+0430", "U+0432", "U+0433", "U+0443", "U+0441", "U+0442", "U+0430">>,
    <<"U+0441", "U+0435", "U+043D", "U+0442", "U+044F", "U+0431", "U+0440", "U+044F">>,
    <<"U+043E", "U+043A", "U+0442", "U+044F", "U+0431", "U+0440", "U+044F">>,
    <<"U+043D", "U+043E", "U+044F", "U+0431", "U+0440", "U+044F">>,
    <<"U+0434", "U+0435", "U+043A", "U+0430", "U+0431", "U+0440", "U+044F">>>>
EnglishMonths ==
  <<<<"j", "a", "n", "u", "a", "r", "y">>,
    <<"f", "e", "b", "r", "u", "a", "r", "y">>,
    <<"m", "a", "r", "c", "h">>,
    <<"a", "p", "r", "i", "l">>,
    <<"m", "a", "y">>,
    <<"j", "u", "n", "e">>,
    <<"j", "u", "l", "y">>,
    <<"a", "u", "g", "u", "s", "t">>,
    <<"s", "e", "p", "t", "e", "m", "b", "e", "r">>,
    <<"o", "c", "t", "o", "b", "e", "r">>,
    <<"n", "o", "v", "e", "m", "b", "e", "r">>,
    <<"d", "e", "c", "e", "m", "b", "e", "r">>>>

\* (?:month names): no name begins another one
MonthEnd(text, i, months) ==
  First({i + Len(months[k]) : k \in {m \in 1..Len(months) : i > 0 /\ StartsWith(text, i, months[m])}})

\* /\b(\d{1,2}\s+(?:month names)\s+\d{4})\b/gi matched at position i
MonthDateEnd(text, i, months) ==
  BoundaryEnd(text,
    DigitsEnd(text,
      SpacesEnd(text,
        MonthEnd(text,
          SpacesEnd(text,
            DigitsEnd(text, BoundaryEnd(text, i), 1..2)),
          months)),
      {4}))

\* The patterns of extractMetadata, by name
MatchEnd(pattern, text, i) ==
  CASE pattern = "amount" -> AmountEnd(text, i)
    [] pattern = "DD.MM.YYYY" -> NumericDateEnd(text, i, 1..2, 1..2, 2..4)
    [] pattern = "YYYY-MM-DD" -> NumericDateEnd(text, i, {4}, 1..2, 1..2)
    [] pattern = "russian" -> MonthDateEnd(text, i, RussianMonths)
    [] pattern = "english" -> MonthDateEnd(text, i, EnglishMonths)

\* text.match(pattern) with the flag g, from position `from` on: the leftmost
\* match, then the matches after it ([] for null)
RECURSIVE MatchAll(_, _, _)
MatchAll(pattern, text, from) ==
  LET starts == {i \in from..Len(text) : MatchEnd(pattern, text, i) # 0}
  IN IF starts = {} THEN <<>>
     ELSE LET i == CHOOSE k \in starts : \A m \in starts : k <= m
              end == MatchEnd(pattern, text, i)
          IN <<SubSeq(text, i, end - 1)>> \o MatchAll(pattern, text, end)

\* m.trim()
Trim(chars) ==
  LET kept == {k \in 1..Len(chars) : ~IsSpace(chars[k])}
  IN IF kept = {} THEN <<>>
     ELSE SubSeq(chars, CHOOSE k \in kept : \A m \in kept : k <= m,
                        CHOOSE k \in kept : \A m \in kept : k >= m)

\* [...new Set(items)]
RECURSIVE Uniq(_)
Uniq(items) ==
  IF items = <<>> THEN <<>>
  ELSE LET front == Uniq(SubSeq(items, 1, Len(items) - 1))
           last == items[Len(items)]
       IN IF \E k \in 1..Len(front) : front[k] = last THEN front ELSE Append(front, last)

\* text.toLowerCase().split(/\s+/)
RECURSIVE Split(_)
Split(text) ==
  LET gaps == {k \in 1..Len(text) : IsSpace(text[k])}
  IN IF gaps = {} THEN <<[k \in 1..Len(text) |-> Lower(text[k])]>>
     ELSE LET g == CHOOSE k \in gaps : \A m \in gaps : k <= m
              run == RunLength(text, g, "\\s")
          IN <<[k \in 1..(g - 1) |-> Lower(text[k])]>> \o
             Split(SubSeq(text, g + run, Len(text)))

\* The English stop words; the Russian ones have at most three letters and
\* never pass the length test.
StopWords ==
  <<<<"t", "h", "e">>,
    <<"a", "n", "d">>,
    <<"i", "n">>,
    <<"t", "o">>,
    <<"o", "f">>,
    <<"i", "s">>,
    <<"i", "t">>,
    <<"f", "o", "r">>,
    <<"w", "i", "t", "h">>,
    <<"o", "n">>,
    <<"a", "t">>,
    <<"b", "y">>>>

\* Object.entries(wordFrequency).sort((a, b) => b[1] - a[1]): the words in the
\* order of their first occurrence, stably sorted by falling frequency
RECURSIVE ByFrequency(_, _)
ByFrequency(distinct, words) ==
  IF distinct = <<>> THEN <<>>
  ELSE LET count(w) == Cardinality({k \in 1..Len(words) : words[k] = w})
           top == CHOOSE k \in 1..Len(distinct) :
                    /\ \A m \in 1..Len(distinct) : count(distinct[m]) <= count(distinct[k])
                    /\ \A m \in 1..(k - 1) : count(distinct[m]) < count(distinct[k])
       IN <<distinct[top]>> \o
          ByFrequency(SubSeq(distinct, 1, top - 1) \o SubSeq(distinct, top + 1, Len(distinct)),
                      words)

MaxKeywords == 10

\* The ten most frequent words of more than three letters
Keywords(text) ==
  LET words == Split(text)
      cleaned == [k \in 1..Len(words) |-> SelectSeq(words[k], IsLetter)]
      kept == SelectSeq(cleaned, LAMBDA w : Len(w) > 3 /\ \A k \in 1..Len(StopWords) : StopWords[k] # w)
      sorted == ByFrequency(Uniq(kept), kept)
  IN SubSeq(sorted, 1, IF Len(sorted) < MaxKeywords THEN Len(sorted) ELSE MaxKeywords)

\* emailPattern needs an @ and phonePattern ten digits: the texts of the model
\* have neither, and these two fields stay []. names is never filled.
extractMetadata(text) ==
  IF text = <<>>
  THEN [dates |-> <<>>, amounts |-> <<>>, emails |-> <<>>, phones |-> <<>>,
        names |-> <<>>, keywords |-> <<>>]
  ELSE LET found == MatchAll("amount", text, 1)
           uniqueAmounts == Uniq([k \in 1..Len(found) |-> Trim(found[k])])
       IN [dates    |-> MatchAll("DD.MM.YYYY", text, 1) \o MatchAll("YYYY-MM-DD", text, 1) \o
                        MatchAll("russian", text, 1) \o MatchAll("english", text, 1),
           amounts  |-> uniqueAmounts \o uniqueAmounts,
           emails   |-> <<>>,
           phones   |-> <<>>,
           names    |-> <<>>,
           keywords |-> Keywords(text)]

\* The keys of metadata in the order of their creation
MetadataFields == <<"dates", "amounts", "emails", "phones", "names", "keywords">>

\* JSON.stringify of a string, an array of strings, and metadata
Quote(chars) == <<"\"">> \o chars \o <<"\"">>
JsonArray(items) ==
  <<"[">> \o Join([k \in 1..Len(items) |-> Quote(items[k])], <<",">>) \o <<"]">>
Stringify(metadata) ==
  <<"{">> \o
  Join([k \in 1..Len(MetadataFields) |->
          Quote(Spell(MetadataFields[k])) \o <<":">> \o JsonArray(metadata[MetadataFields[k]])],
       <<",">>) \o
  <<"}">>

\* JavaScript values: a string, an object by its own properties, undefined
JsString(chars) == [t |-> "string", v |-> chars]
JsObject(properties) == [t |-> "object", v |-> properties]
JsUndefined == [t |-> "undefined", v |-> <<>>]

\* The key of the n-th character of a string
RECURSIVE IndexKey(_)
IndexKey(n) ==
  IF n < 10 THEN DigitChars[n + 1]
  ELSE IndexKey(n \div 10) \o DigitChars[(n % 10) + 1]

\* The longest string the model spreads
MaxStringLength == 128

\* The keys of the characters of a string, and the index each key names
IndexKeys == [n \in 0..(MaxStringLength - 1) |-> IndexKey(n)]
KeyIndex ==
  [key \in {IndexKeys[n] : n \in DOMAIN IndexKeys} |->
     CHOOSE n \in DOMAIN IndexKeys : IndexKeys[n] = key]

\* The own enumerable properties of a string: its characters under their
\* indices
Characters(chars) ==
  [key \in {IndexKeys[n] : n \in 0..(Len(chars) - 1)} |-> chars[KeyIndex[key] + 1]]

\* {...value}: the own enumerable properties of the value; undefined has none.
Spread(value) ==
  CASE value.t = "object" -> value.v
    [] value.t = "string" -> Characters(value.v)
    [] value.t = "undefined" -> <<>>

\* {...a, ...b}: the properties of b after, and over, those of a
Merge(a, b) ==
  [key \in DOMAIN a \cup DOMAIN b |-> IF key \in DOMAIN b THEN b[key] ELSE a[key]]

----------------------------------------------------------------------------
(* ocrService.processImage *)

\* Texts are sequences of characters; '' is <<>>.
EmptyText == ""

\* The text recognition may return: an amount.
OcrTexts == {"100 USD"}

\* processImage resolves to {success: false, error} when recognizeText failed,
\* and to {success: true, text, confidence, words, metadata,
\* rawMetadata: JSON.stringify(metadata)} otherwise; it never rejects.
processImage(texts) ==
  {[success |-> FALSE, text |-> Undefined, rawMetadata |-> JsUndefined]} \cup
  {[success |-> TRUE, text |-> t,
    rawMetadata |-> JsString(Stringify(extractMetadata(Spell(t))))] : t \in texts}

ProcessImageResults == processImage(OcrTexts)

\* let ocrResult = { success: false, text: '', confidence: 0, rawMetadata: {} }
DefaultOcrResult ==
  [success |-> FALSE, text |-> EmptyText, rawMetadata |-> JsObject(<<>>)]

----------------------------------------------------------------------------
(* POST /api/documents: the upload handler *)

\* Mutant: page_order is the 0-based loop index.
PageRowZeroBased(id, documentId, file, i, ocrResult) ==
  [id          |-> id,
   document_id |-> documentId,
   file_name   |-> file.filename,
   page_order  |-> i,
   ocr_text    |-> IF ocrResult.text = Undefined THEN EmptyText ELSE ocrResult.text,
   extracted_data |->
     Merge(Spread(ocrResult.rawMetadata),
           [isPdf |-> isPdf(file), isWord |-> isWord(file),
            ocrAttempted |-> ~isPdf(file) /\ ~isWord(file),
            ocrSuccess |-> ocrResult.success])]

\* The INSERT INTO document_pages of loop index i (0-based), with ocrResult;
\* id is the rowid SQLite gives the row.
PageRow(id, documentId, file, i, ocrResult) ==
  [id          |-> id,
   document_id |-> documentId,
   file_name   |-> file.filename,
   page_order  |-> i + 1,
   ocr_text    |-> IF ocrResult.text = Undefined THEN EmptyText ELSE ocrResult.text,
   extracted_data |->
     Merge(Spread(ocrResult.rawMetadata),
           [isPdf |-> isPdf(file), isWord |-> isWord(file),
            ocrAttempted |-> ~isPdf(file) /\ ~isWord(file),
            ocrSuccess |-> ocrResult.success])]

\* Mutant: processImage is called for every file, whatever its kind.
RunLoopOcrAll(documentId, files, i, rows, pageId) ==
  [i |-> i, rows |-> rows, pageId |-> pageId, awaiting |-> i < Len(files)]

\* The for loop from index i until it suspends at the OCR call of an image or
\* runs past the last file; rows are the pages inserted so far and pageId the
\* next rowid.
RECURSIVE RunLoop(_, _, _, _, _)
RunLoop(documentId, files, i, rows, pageId) ==
  IF i >= Len(files)
  THEN [i |-> i, rows |-> rows, pageId |-> pageId, awaiting |-> FALSE]
  ELSE LET file == files[i + 1]
       IN IF ~isPdf(file) /\ ~isWord(file)
          THEN [i |-> i, rows |-> rows, pageId |-> pageId, awaiting |-> TRUE]
          ELSE RunLoop(documentId, files, i + 1,
                       Append(rows, PageRow(pageId, documentId, file, i, DefaultOcrResult)),
                       pageId + 1)

\* Tables as functions on the keys of the rows that exist.
Put(f, k, v) == [x \in DOMAIN f \cup {k} |-> IF x = k THEN v ELSE f[x]]
Drop(f, k) == [x \in DOMAIN f \ {k} |-> f[x]]

\* res.status(status).json(...): the response, with the request it answers.
Response(op, user, doc, status) ==
  [op |-> op, user |-> user, doc |-> doc, status |-> status, rows |-> <<>>, total |-> 0,
   matchedPages |-> <<>>, error |-> ""]

DefaultTitle == "Document du jour"

\* req.body of an upload: title and category are optional.
UploadBodies ==
  [title : {Undefined}, description : {Undefined}, category : {Undefined}]

\* CURRENT_TIMESTAMP, second by second in increasing (text) order; the model
\* creates its documents at different seconds.
Timestamps ==
  <<"2024-01-01 10:00:00", "2024-01-02 10:00:00", "2024-01-03 10:00:00", "2024-01-04 10:00:00">>

\* title || `Document du ...`, category || 'general'
OrDefault(v, d) == IF v \in {Undefined, Null, ""} THEN d ELSE v

\* INSERT INTO documents (user_id, title, description, category, status)
\* VALUES (?, ?, ?, ?, 'processing')
NewDocument(userId, body, now) ==
  [user_id     |-> userId,
   title       |-> OrDefault(body.title, DefaultTitle),
   description |-> OrDefault(body.description, EmptyText),
   category    |-> OrDefault(body.category, "general"),
   status      |-> "processing",
   created_at  |-> now]

\* Mutant: the status update after the loop is left out.
SetReadyForgotten(docs, documentId) == docs

\* UPDATE documents SET status = 'ready' WHERE id = ?
SetReady(docs, documentId) ==
  IF documentId \in DOMAIN docs
  THEN [docs EXCEPT ![documentId].status = "ready"]
  ELSE docs

\* The handler from loop index i on, the pages of the document being `rows`:
\* it suspends at the next OCR call, or finishes the batch and answers 201.
ContinueUpload(user, documentId, files, i, rows, pageId, docs) ==
  LET run == RunLoop(documentId, files, i, rows, pageId)
  IN /\ document_pages' = [document_pages EXCEPT ![documentId] = run.rows]
     /\ nextPageId' = run.pageId
     /\ IF run.awaiting
        THEN /\ uploads' = Put(uploads, documentId,
                               [user |-> user, files |-> files, i |-> run.i])
             /\ documents' = docs
             /\ res' = res
        ELSE /\ uploads' = Drop(uploads, documentId)
             /\ documents' = SetReady(docs, documentId)
             /\ res' = Response("POST /", user, documentId, 201)

\* Mutant: the upload is not validated.
NoFilesAccepted(files) == FALSE

\* !files || files.length === 0
NoFiles(files) == Len(files) = 0

\* router.post('/', authenticateToken, checkPermission('documents:create'),
\*             upload.array('files', 20), handler), up to its first await
PostDocuments(user, body, files) ==
  LET mw == checkPermission(user, "documents:create")
  IN IF mw # NextMw
     THEN /\ res' = Response("POST /", user, NoDoc, mw)
          /\ UNCHANGED <<uploadDir, workers, users, documents, document_pages, nextDocId, nextPageId, uploads, batchOf>>
     ELSE IF NoFiles(files)
     THEN /\ res' = Response("POST /", user, NoDoc, 400)
          /\ UNCHANGED <<uploadDir, workers, users, documents, document_pages, nextDocId, nextPageId, uploads, batchOf>>
     ELSE /\ nextDocId <= MaxDocs
          /\ nextDocId' = nextDocId + 1
          /\ ContinueUpload(user, nextDocId, files, 0, <<>>, nextPageId,
                            Put(documents, nextDocId, NewDocument(user.id, body, Timestamps[nextDocId])))
          /\ batchOf' = Put(batchOf, nextDocId, files)
          /\ uploadDir' = uploadDir \cup {<<nextDocId, files[k].filename>> : k \in 1..Len(files)}
          /\ UNCHANGED <<workers, users>>

\* Mutant: foreign keys are not enforced (SQLite's default without the pragma).
ForeignKeysOff(documentId, docs) == FALSE

\* db.pragma('foreign_keys = ON'): INSERT INTO document_pages throws when
\* document_id REFERENCES documents(id) names no row.
ForeignKeyFails(documentId, docs) == documentId \notin DOMAIN docs

\* Mutant: a failed recognition ends the request (the error leaves the loop).
OcrReturnAborts(documentId, ocrResult) ==
  /\ documentId \in DOMAIN uploads
  /\ LET up == uploads[documentId]
         file == up.files[up.i + 1]
     IN IF ForeignKeyFails(documentId, documents) \/ ~ocrResult.success
        THEN /\ uploads' = Drop(uploads, documentId)
             /\ res' = Response("POST /", up.user, documentId, 500)
             /\ UNCHANGED <<documents, document_pages, nextPageId>>
        ELSE ContinueUpload(up.user, documentId, up.files, up.i + 1,
                            Append(document_pages[documentId],
                                   PageRow(nextPageId, documentId, file, up.i, ocrResult)),
                            nextPageId + 1, documents)
  /\ UNCHANGED <<uploadDir, workers, users, nextDocId, batchOf>>

\* The upload handler resumed by the result of processImage for files[i] (the
\* engine workers of the call are followed by RecognizeText; no row depends
\* on them):
\* the page is inserted (the foreign key of document_pages refuses it when the
\* document is gone, and the catch answers 500), then the loop goes on.
OcrReturn(documentId, ocrResult) ==
  /\ documentId \in DOMAIN uploads
  /\ LET up == uploads[documentId]
         file == up.files[up.i + 1]
     IN IF ForeignKeyFails(documentId, documents)
        THEN /\ uploads' = Drop(uploads, documentId)
             /\ res' = Response("POST /", up.user, documentId, 500)
             /\ UNCHANGED <<documents, document_pages, nextPageId>>
        ELSE ContinueUpload(up.user, documentId, up.files, up.i + 1,
                            Append(document_pages[documentId],
                                   PageRow(nextPageId, documentId, file, up.i, ocrResult)),
                            nextPageId + 1, documents)
  /\ UNCHANGED <<uploadDir, workers, users, nextDocId, batchOf>>

\* The upload handler resumed by an OCR result when the INSERT INTO document_pages
\* of the awaited file throws for a reason of the store (disk full, I/O error,
\* database locked): the catch answers 500 and touches no row.
PageInsertFails(documentId) ==
  /\ documentId \in DOMAIN uploads
  /\ documentId \in DOMAIN documents
  /\ uploads' = Drop(uploads, documentId)
  /\ res' = Response("POST /", uploads[documentId].user, documentId, 500)
  /\ UNCHANGED <<uploadDir, workers, users, documents, document_pages, nextDocId, nextPageId, batchOf>>

----------------------------------------------------------------------------
(* GET, PUT, DELETE /api/documents/:id and PUT /:id/pages/:pageId *)

\* router.get('/:id', authenticateToken, checkDocumentOwnership, handler)
GetDocument(user, id) ==
  LET mw == checkDocumentOwnership(user, id, documents)
  IN /\ res' = Response("GET /:id", user, id,
                        IF mw # NextMw THEN mw
                        ELSE IF id \notin DOMAIN documents THEN 404
                        ELSE 200)
     /\ UNCHANGED <<uploadDir, workers, users, documents, document_pages, nextDocId, nextPageId, uploads, batchOf>>

\* req.body of PUT /:id; description and tags are bound like title.
StatusValues == {"processing", "ready", "archived"}

EditBodies ==
  [title    : {Undefined, Null},
   category : {Undefined, Null},
   status   : {Undefined, Null} \cup StatusValues]

\* Mutant: the edit makes the editing actor the owner of the document.
UpdateDocumentTakesOver(docs, id, body) ==
  IF id \notin DOMAIN docs THEN docs ELSE [docs EXCEPT ![id].user_id = 1]

\* COALESCE(?, column)
Coalesce(v, column) == IF v = Null THEN column ELSE v

\* UPDATE documents SET title = COALESCE(?, title), ..., status = COALESCE(?, status)
\* WHERE id = ?
UpdateDocument(docs, id, body) ==
  IF id \notin DOMAIN docs THEN docs
  ELSE [docs EXCEPT ![id] =
          [@ EXCEPT !.title    = Coalesce(body.title, @),
                    !.category = Coalesce(body.category, @),
                    !.status   = Coalesce(body.status, @)]]

\* better-sqlite3 binds numbers, strings, bigints, buffers and null: a key the
\* body lacks is undefined, and .run throws.
BindFails(body) == Undefined \in {body.title, body.category, body.status}

\* router.put('/:id', authenticateToken, checkDocumentOwnership,
\*            checkPermission('documents:edit_own'), handler)
PutDocument(user, id, body) ==
  LET mw1 == checkDocumentOwnership(user, id, documents)
      mw2 == checkPermission(user, "documents:edit_own")
  IN IF mw1 # NextMw
     THEN /\ res' = Response("PUT /:id", user, id, mw1)
          /\ UNCHANGED <<uploadDir, workers, users, documents, document_pages, nextDocId, nextPageId, uploads, batchOf>>
     ELSE IF mw2 # NextMw
     THEN /\ res' = Response("PUT /:id", user, id, mw2)
          /\ UNCHANGED <<uploadDir, workers, users, documents, document_pages, nextDocId, nextPageId, uploads, batchOf>>
     ELSE IF BindFails(body)
     THEN /\ res' = Response("PUT /:id", user, id, 500)
          /\ UNCHANGED <<uploadDir, workers, users, documents, document_pages, nextDocId, nextPageId, uploads, batchOf>>
     ELSE /\ documents' = UpdateDocument(documents, id, body)
          /\ res' = Response("PUT /:id", user, id, 200)
          /\ UNCHANGED <<uploadDir, workers, users, document_pages, nextDocId, nextPageId, uploads, batchOf>>

\* pages.forEach(page => { if (fs.existsSync(page.file_path))
\* fs.unlinkSync(page.file_path) }) over the first n of the rows selected
Unlink(dir, id, pages, n) == dir \ {<<id, pages[k].file_name>> : k \in 1..n}

\* router.delete('/:id', authenticateToken, checkDocumentOwnership,
\*               checkPermission('documents:delete_own'), handler):
\* DELETE FROM documents WHERE id = ?, the pages going with ON DELETE CASCADE.
DeleteDocument(user, id) ==
  LET mw1 == checkDocumentOwnership(user, id, documents)
      mw2 == checkPermission(user, "documents:delete_own")
  IN IF mw1 # NextMw
     THEN /\ res' = Response("DELETE /:id", user, id, mw1)
          /\ UNCHANGED <<uploadDir, workers, users, documents, document_pages, nextDocId, nextPageId, uploads, batchOf>>
     ELSE IF mw2 # NextMw
     THEN /\ res' = Response("DELETE /:id", user, id, mw2)
          /\ UNCHANGED <<uploadDir, workers, users, documents, document_pages, nextDocId, nextPageId, uploads, batchOf>>
     ELSE /\ uploadDir' = Unlink(uploadDir, id, document_pages[id], Len(document_pages[id]))
          /\ documents' = Drop(documents, id)
          /\ document_pages' = [document_pages EXCEPT ![id] = <<>>]
          /\ res' = Response("DELETE /:id", user, id, 200)
          /\ UNCHANGED <<workers, users, nextDocId, nextPageId, uploads, batchOf>>

\* The handler of DELETE /:id when it throws part-way: fs.unlinkSync throws at
\* the file of page n + 1, or the DELETE statement throws after all the files
\* of the n pages are gone (I/O error, database locked). The catch answers 500.
DeleteFails(user, id, n) ==
  /\ checkDocumentOwnership(user, id, documents) = NextMw
  /\ checkPermission(user, "documents:delete_own") = NextMw
  /\ n <= Len(document_pages[id])
  /\ uploadDir' = Unlink(uploadDir, id, document_pages[id], n)
  /\ res' = Response("DELETE /:id", user, id, 500)
  /\ UNCHANGED <<workers, users, documents, document_pages, nextDocId, nextPageId, uploads,
                 batchOf>>

\* router.put('/:id/pages/:pageId', authenticateToken, checkDocumentOwnership,
\*            checkPermission('documents:edit_own'), handler):
\* UPDATE document_pages SET ocr_text = ?, extracted_data = ?,
\* updated_at = CURRENT_TIMESTAMP: the table has no column updated_at, so
\* db.prepare throws and the catch answers 500.
PutPage(user, id, pageOrder) ==
  LET mw1 == checkDocumentOwnership(user, id, documents)
      mw2 == checkPermission(user, "documents:edit_own")
  IN /\ res' = Response("PUT /:id/pages/:pageId", user, id,
                        IF mw1 # NextMw THEN mw1
                        ELSE IF mw2 # NextMw THEN mw2
                        ELSE 500)
     /\ UNCHANGED <<uploadDir, workers, users, documents, document_pages, nextDocId, nextPageId, uploads, batchOf>>

----------------------------------------------------------------------------
(* PUT /api/admin/users/:id/role, DELETE /api/admin/users/:id, PUT /api/auth/profile *)

\* req.body.role: the roles and no role; validRoles lacks guest
RoleBodies == RoleSet \cup {Undefined}
ValidRoles == {"admin", "manager", "user"}

\* Mutant: an admin may lower their own role.
SelfDemotionAllowed(user, id, role) == FALSE

\* id == req.user.id && role !== 'admin' && req.user.role === 'admin'
SelfDemotion(user, id, role) == id = user.id /\ role # "admin" /\ user.role = "admin"

\* The answer of an admin route about user id, with the error it names
Refusal(op, user, id, status, error) ==
  [Response(op, user, id, status) EXCEPT !.error = error]

\* router.put('/users/:id/role', authenticateToken, checkPermission('users:manage'),
\*            handler); the user addressed is in the field doc of the answer.
PutUserRole(user, id, role) ==
  LET mw == checkPermission(user, "users:manage")
      op == "PUT /users/:id/role"
  IN /\ res' = IF mw # NextMw THEN Response(op, user, id, mw)
               ELSE IF role \notin ValidRoles THEN Refusal(op, user, id, 400, "Validation error")
               ELSE IF id \notin DOMAIN users THEN Response(op, user, id, 404)
               ELSE IF SelfDemotion(user, id, role)
               THEN Refusal(op, user, id, 400, "Action interdite")
               ELSE Response(op, user, id, 200)
     /\ users' = IF res'.status = 200 THEN [users EXCEPT ![id] = role] ELSE users
     /\ UNCHANGED <<uploadDir, workers, documents, document_pages, nextDocId, nextPageId,
                    uploads, batchOf>>

\* Mutant: an admin may delete their own account.
SelfDeletionAllowed(user, id) == FALSE

\* id == req.user.id
SelfDeletion(user, id) == id = user.id

\* router.delete('/users/:id', authenticateToken, checkPermission('users:manage'),
\*               handler): DELETE FROM users, and ON DELETE CASCADE removes the
\* documents of the user and their pages.
DeleteUser(user, id) ==
  LET mw == checkPermission(user, "users:manage")
      op == "DELETE /users/:id"
      gone == {d \in DOMAIN documents : documents[d].user_id = id}
  IN IF mw # NextMw \/ SelfDeletion(user, id) \/ id \notin DOMAIN users
     THEN /\ res' = IF mw # NextMw THEN Response(op, user, id, mw)
                    ELSE IF SelfDeletion(user, id)
                    THEN Refusal(op, user, id, 400, "Action interdite")
                    ELSE Response(op, user, id, 404)
          /\ UNCHANGED <<uploadDir, workers, users, documents, document_pages, nextDocId, nextPageId, uploads, batchOf>>
     ELSE /\ users' = Drop(users, id)
          /\ documents' = [d \in DOMAIN documents \ gone |-> documents[d]]
          /\ document_pages' = [d \in DOMAIN document_pages |->
                                  IF d \in gone THEN <<>> ELSE document_pages[d]]
          /\ res' = Response(op, user, id, 200)
          /\ UNCHANGED <<uploadDir, workers, nextDocId, nextPageId, uploads, batchOf>>

\* router.put('/profile', authenticateToken, handler): UPDATE users SET name,
\* email, updated_at of the caller, or 409 when the email is taken. The model
\* keeps neither names nor emails.
PutProfile(user, status) ==
  /\ res' = Response("PUT /profile", user, NoDoc, status)
  /\ UNCHANGED <<uploadDir, workers, users, documents, document_pages, nextDocId, nextPageId, uploads, batchOf>>

----------------------------------------------------------------------------
(* Texts and the SQL statements of the bulk reads *)

\* text LIKE pattern: % is any run of characters, _ any one character.
RECURSIVE Like(_, _)
Like(text, pattern) ==
  IF pattern = <<>> THEN text = <<>>
  ELSE IF pattern = <<"%">> THEN TRUE
  ELSE IF Head(pattern) = "%"
  THEN Like(text, Tail(pattern)) \/ (text # <<>> /\ Like(Tail(text), pattern))
  ELSE /\ text # <<>>
       /\ (Head(pattern) = "_" \/ Lower(Head(text)) = Lower(Head(pattern)))
       /\ Like(Tail(text), Tail(pattern))

\* The characters of timestamps and dates in their binary (memcmp) order.
Collation == <<" ", "-", "0", "1", "2", "3", "4", "5", "6", "7", "8", "9", ":">>
Rank(c) == CHOOSE i \in 1..Len(Collation) : Collation[i] = c

\* a <= b for two texts
RECURSIVE TextLeq(_, _)
TextLeq(a, b) ==
  IF a = <<>> THEN TRUE
  ELSE IF b = <<>> THEN FALSE
  ELSE IF Head(a) = Head(b) THEN TextLeq(Tail(a), Tail(b))
  ELSE Rank(Head(a)) < Rank(Head(b))

\* The values bound to a statement: integers and texts.
Integer(n) == [t |-> "integer", v |-> n]
Text(chars) == [t |-> "text", v |-> chars]

\* `%${q}%`
Pattern(q) == Text(<<"%">> \o Spell(q) \o <<"%">>)

\* A piece of SQL text with its n placeholders; a statement is the sequence of
\* its pieces in text order, with the array of its parameters.
Clause(kw, cond, n) == [kw |-> kw, cond |-> cond, n |-> n]

\* query += clause; params.push(...args)
Push(stmt, clause, args) ==
  [sql |-> Append(stmt.sql, clause), params |-> stmt.params \o args]

\* query.replace(old, new): the first occurrence of old, if there is one.
Replace(sql, old, new) ==
  IF \E k \in 1..Len(sql) : sql[k] = old
  THEN LET k == CHOOSE i \in 1..Len(sql) :
                  sql[i] = old /\ \A j \in 1..(i - 1) : sql[j] # old
       IN SubSeq(sql, 1, k - 1) \o new \o SubSeq(sql, k + 1, Len(sql))
  ELSE sql

RECURSIVE Placeholders(_)
Placeholders(sql) ==
  IF sql = <<>> THEN 0 ELSE Head(sql).n + Placeholders(Tail(sql))

\* Parameters bind to placeholders in text order: those of the k-th piece.
ArgsOf(sql, params, k) ==
  LET before == Placeholders(SubSeq(sql, 1, k - 1))
  IN SubSeq(params, before + 1, before + sql[k].n)

\* db.prepare(sql) rejects a second HAVING; .all/.get(...params) throws a
\* RangeError unless there is one parameter per placeholder, and LIMIT and
\* OFFSET take integers only.
Throws(sql, params) ==
  \/ Cardinality({k \in 1..Len(sql) : sql[k].kw = "HAVING"}) > 1
  \/ Placeholders(sql) # Len(params)
  \/ \E k \in 1..Len(sql) :
       /\ sql[k].kw = "LIMIT"
       /\ \E j \in 1..sql[k].n : ArgsOf(sql, params, k)[j].t # "integer"

\* The pattern a bound value gives to LIKE
PatternOf(arg) == IF arg.t = "text" THEN arg.v ELSE DecStr(arg.v)

\* The page columns of a document without pages in the LEFT JOIN
NullPage == [id |-> 0, ocr_text |-> Null]

\* One condition on a row of documents d LEFT JOIN document_pages dp
Holds(clause, args, doc, page) ==
  CASE clause.cond = "1=1" -> TRUE
    [] clause.cond = "d.user_id = ?" ->
         args[1].t = "integer" /\ args[1].v = doc.user_id
    [] clause.cond = "d.status = ?" ->
         args[1].t = "text" /\ args[1].v = Spell(doc.status)
    [] clause.cond = "d.category = ?" ->
         args[1].t = "text" /\ args[1].v = Spell(doc.category)
    [] clause.cond = "d.title LIKE ?" ->
         Like(Spell(doc.title), PatternOf(args[1]))
    [] clause.cond = "d.created_at >= ?" ->
         args[1].t = "text" => TextLeq(args[1].v, Spell(doc.created_at))
    [] clause.cond = "d.created_at <= ?" ->
         args[1].t = "text" /\ TextLeq(Spell(doc.created_at), args[1].v)
    [] clause.cond = "(d.title LIKE ? OR d.description LIKE ? OR d.tags LIKE ?)" ->
         \/ Like(Spell(doc.title), PatternOf(args[1]))
         \/ Like(Spell(doc.description), PatternOf(args[2]))
         \/ Like(Spell("[]"), PatternOf(args[3]))
    [] clause.cond = "(d.title LIKE ? OR d.description LIKE ? OR dp.ocr_text LIKE ?)" ->
         \/ Like(Spell(doc.title), PatternOf(args[1]))
         \/ Like(Spell(doc.description), PatternOf(args[2]))
         \/ (page.id # 0 /\ Like(Spell(page.ocr_text), PatternOf(args[3])))

\* The rows of document d in FROM documents d LEFT JOIN document_pages dp
\* ON d.id = dp.document_id [AND ...] WHERE ..., as indices of its pages (0: the
\* row of null page columns). An AND that no WHERE precedes continues the ON.
JoinRows(sql, params, d, docs, pages) ==
  LET on == {k \in 1..Len(sql) :
               sql[k].kw = "AND" /\ \A j \in 1..k : sql[j].kw # "WHERE"}
      where == {k \in 1..Len(sql) : sql[k].kw \in {"WHERE", "AND"}} \ on
      RowOf(j) == IF j = 0 THEN NullPage ELSE pages[d][j]
      holds(k, j) == Holds(sql[k], ArgsOf(sql, params, k), docs[d], RowOf(j))
      joined == {j \in 1..Len(pages[d]) : \A k \in on : holds(k, j)}
  IN {j \in (IF joined = {} THEN {0} ELSE joined) : \A k \in where : holds(k, j)}

\* GROUP_CONCAT(dp.id || '|' || dp.page_order || '|' || COALESCE(dp.ocr_text, ''))
\* over the rows of a group, NULL when the group has no page
GroupConcat(rows, d, pages) ==
  LET kept == SelectSeq(pages[d], LAMBDA p : \E j \in rows : j # 0 /\ pages[d][j] = p)
      item(p) == DecStr(p.id) \o <<"|">> \o DecStr(p.page_order) \o <<"|">> \o Spell(p.ocr_text)
  IN IF kept = <<>> THEN [null |-> TRUE, v |-> <<>>]
     ELSE [null |-> FALSE, v |-> Join([j \in 1..Len(kept) |-> item(kept[j])], <<",">>)]

\* HAVING pages LIKE ? [OR pages LIKE ? ...]
Having(clause, args, concat) ==
  ~concat.null /\ \E i \in 1..clause.n : Like(concat.v, PatternOf(args[i]))

\* The ids of the groups of GROUP BY d.id that pass HAVING
Groups(sql, params, docs, pages) ==
  {d \in DOMAIN docs :
     LET rows == JoinRows(sql, params, d, docs, pages)
     IN /\ rows # {}
        /\ \A k \in 1..Len(sql) :
             sql[k].kw = "HAVING" =>
               Having(sql[k], ArgsOf(sql, params, k), GroupConcat(rows, d, pages))}

\* ORDER BY d.created_at DESC
RECURSIVE OrderByCreatedDesc(_, _)
OrderByCreatedDesc(ids, docs) ==
  IF ids = {} THEN <<>>
  ELSE LET d == CHOOSE x \in ids :
                  \A y \in ids : TextLeq(Spell(docs[y].created_at), Spell(docs[x].created_at))
       IN <<d>> \o OrderByCreatedDesc(ids \ {d}, docs)

Min(a, b) == IF a <= b THEN a ELSE b

\* db.prepare(query).all(...params): the ids of the documents selected
all(stmt, docs, pages) ==
  IF Throws(stmt.sql, stmt.params) THEN [throws |-> TRUE, rows |-> <<>>]
  ELSE LET ordered == OrderByCreatedDesc(Groups(stmt.sql, stmt.params, docs, pages), docs)
           k == CHOOSE i \in 1..Len(stmt.sql) : stmt.sql[i].kw = "LIMIT"
           limit == ArgsOf(stmt.sql, stmt.params, k)[1].v
           offset == ArgsOf(stmt.sql, stmt.params, k)[2].v
       IN [throws |-> FALSE,
           rows |-> IF limit < 0 THEN SubSeq(ordered, offset + 1, Len(ordered))
                    ELSE SubSeq(ordered, offset + 1, Min(Len(ordered), offset + limit))]

\* db.prepare(countQuery).get(...countParams): COUNT(DISTINCT d.id), COUNT(*)
get(stmt, docs, pages) ==
  IF Throws(stmt.sql, stmt.params) THEN [throws |-> TRUE, total |-> 0]
  ELSE [throws |-> FALSE,
        total |-> Cardinality(Groups(stmt.sql, stmt.params, docs, pages))]

----------------------------------------------------------------------------
(* GET /api/search and GET /api/documents *)

\* if (v): a query parameter that is present and not empty
Truthy(v) == v \notin {Undefined, ""}

GroupConcatPages ==
  Clause("SELECT", "GROUP_CONCAT(dp.id || '|' || dp.page_order || '|' || COALESCE(dp.ocr_text, '')) as pages", 0)
CaseOcrLike ==
  Clause("SELECT", "CASE WHEN dp.ocr_text LIKE ? THEN 1 ELSE 0 END as match_score,", 1)
WhereUserId == Clause("WHERE", "d.user_id = ?", 1)
AndDocLike == Clause("AND", "(d.title LIKE ? OR d.description LIKE ? OR d.tags LIKE ?)", 3)
AndCreatedFrom == Clause("AND", "d.created_at >= ?", 1)
AndCreatedTo == Clause("AND", "d.created_at <= ?", 1)
AndCategory == Clause("AND", "d.category = ?", 1)
GroupById == Clause("GROUP BY", "d.id", 0)
HavingAmount == Clause("HAVING", "pages LIKE ? OR pages LIKE ? OR pages LIKE ?", 3)
HavingDate == Clause("HAVING", "pages LIKE ?", 1)
LimitOffset == Clause("LIMIT", "ORDER BY d.created_at DESC LIMIT ? OFFSET ?", 2)
CountDistinct == Clause("SELECT", "COUNT(DISTINCT d.id) as total", 0)
AndCountLike ==
  Clause("AND", "(d.title LIKE ? OR d.description LIKE ? OR dp.ocr_text LIKE ?)", 3)

\* '%RUB%' in Cyrillic (its letters named by code point), '%RUB%', '%USD%' and
\* '%__.__.____%'
AmountPatterns ==
  <<Text(<<"%", "U+0440", "U+0443", "U+0431", "%">>), Text(<<"%", "R", "U", "B", "%">>),
    Text(<<"%", "U", "S", "D", "%">>)>>
DatePattern == Text(<<"%", "_", "_", ".", "_", "_", ".", "_", "_", "_", "_", "%">>)

\* Mutant: the base query of search without the owner restriction.
SearchBaseUnscoped(userId) ==
  [sql |-> <<GroupConcatPages, Clause("WHERE", "1=1", 0)>>, params |-> <<>>]

\* let query = `SELECT DISTINCT ... WHERE d.user_id = ?`; const params = [userId]
SearchBase(userId) ==
  [sql |-> <<GroupConcatPages, WhereUserId>>, params |-> <<Integer(userId)>>]

\* The query and params of search as the handler builds them
SearchStatement(userId, query) ==
  LET searchType == IF Truthy(query.type) THEN query.type ELSE "all"
      s0 == SearchBase(userId)
      s1 == IF Truthy(query.q) /\ searchType \in {"all", "content"}
            THEN [sql |-> Replace(s0.sql, GroupConcatPages, <<CaseOcrLike, GroupConcatPages>>),
                  params |-> Append(s0.params, Pattern(query.q))]
            ELSE s0
      s2 == IF Truthy(query.q) /\ searchType \in {"all", "document"}
            THEN [sql |-> Replace(s1.sql, WhereUserId, <<AndDocLike>>),
                  params |-> s1.params \o <<Pattern(query.q), Pattern(query.q), Pattern(query.q)>>]
            ELSE s1
      s3 == IF Truthy(query.dateFrom)
            THEN Push(s2, AndCreatedFrom, <<Text(Spell(query.dateFrom))>>) ELSE s2
      s4 == IF Truthy(query.dateTo)
            THEN Push(s3, AndCreatedTo, <<Text(Spell(query.dateTo))>>) ELSE s3
      s5 == IF Truthy(query.category)
            THEN Push(s4, AndCategory, <<Text(Spell(query.category))>>) ELSE s4
      s6 == Push(s5, GroupById, <<>>)
      s7 == IF query.hasAmount = "true" THEN Push(s6, HavingAmount, AmountPatterns) ELSE s6
      s8 == IF query.hasDate = "true" THEN Push(s7, HavingDate, <<DatePattern>>) ELSE s7
  IN Push(s8, LimitOffset,
          <<Integer(query.limit), Integer((query.page - 1) * query.limit)>>)

\* countQuery and countParams of search
SearchCount(userId, query) ==
  LET c0 == [sql |-> <<CountDistinct, WhereUserId>>, params |-> <<Integer(userId)>>]
      c1 == IF Truthy(query.q)
            THEN Push(c0, AndCountLike,
                      <<Pattern(query.q), Pattern(query.q), Pattern(query.q)>>)
            ELSE c0
      c2 == IF Truthy(query.dateFrom)
            THEN Push(c1, AndCreatedFrom, <<Text(Spell(query.dateFrom))>>) ELSE c1
      c3 == IF Truthy(query.dateTo)
            THEN Push(c2, AndCreatedTo, <<Text(Spell(query.dateTo))>>) ELSE c2
  IN IF Truthy(query.category)
     THEN Push(c3, AndCategory, <<Text(Spell(query.category))>>) ELSE c3

\* s.split(sep)
RECURSIVE SplitAt(_, _)
SplitAt(chars, sep) ==
  LET k == First({i \in 1..Len(chars) : chars[i] = sep})
  IN IF k = 0 THEN <<chars>>
     ELSE <<SubSeq(chars, 1, k - 1)>> \o SplitAt(SubSeq(chars, k + 1, Len(chars)), sep)

\* What parseInt gives when its argument does not start with a digit: NaN. No
\* id and no page order is negative.
NaN == -1

\* parseInt(s): the digits after the leading white space, NaN without a digit
parseInt(chars) ==
  LET from == RunLength(chars, 1, "\\s") + 1
      n == RunLength(chars, from, "\\d")
      digit(k) == (CHOOSE i \in 1..Len(DigitChars) : DigitChars[i] = chars[k]) - 1
      RECURSIVE value(_)
      value(k) == IF k < from THEN 0 ELSE 10 * value(k - 1) + digit(k)
  IN IF n = 0 THEN NaN ELSE value(from + n - 1)

\* doc.pages ? doc.pages.split(',').map(p => {...}) : [], then
\* pages.filter(p => p.highlights.length > 0): matchedPages of one result.
\* pages is the GROUP_CONCAT of the row, q is req.query.q.
matchedPages(pages, q) ==
  IF pages.null \/ pages.v = <<>> THEN <<>>
  ELSE LET parts == SplitAt(pages.v, ",")
           page(p) ==
             LET cols == SplitAt(p, "|")
                 ocrText == IF Len(cols) >= 3 THEN cols[3] ELSE <<>>
                 needle == IF Truthy(q) THEN Spell(q) ELSE <<>>
                 found == {i \in 0..(Len(ocrText) - Len(needle)) :
                             \A k \in 1..Len(needle) : Lower(ocrText[i + k]) = Lower(needle[k])}
                 index == CHOOSE i \in found : \A m \in found : i <= m
                 start == IF index - 50 > 0 THEN index - 50 ELSE 0
                 end == Min(Len(ocrText), index + Len(needle) + 50)
             IN [id |-> parseInt(cols[1]),
                 pageOrder |-> IF Len(cols) >= 2 THEN parseInt(cols[2]) ELSE NaN,
                 highlights |-> IF Truthy(q) /\ ocrText # <<>> /\ found # {}
                                THEN <<SubSeq(ocrText, start + 1, end)>> ELSE <<>>]
       IN SelectSeq([k \in 1..Len(parts) |-> page(parts[k])], LAMBDA p : p.highlights # <<>>)

\* res.json of a bulk read: the ids of the documents returned, in order, and total
Results(op, user, status, rows, total) ==
  [Response(op, user, NoDoc, status) EXCEPT !.rows = rows, !.total = total]

\* results.map(doc => ...) and res.json({ results, total, ... }) of search: the
\* rows of the statement, each with the matched pages of its GROUP_CONCAT
SearchResults(user, q, stmt, found, count, docs, pages) ==
  IF found.throws \/ count.throws
  THEN Response("GET /api/search", user, NoDoc, 500)
  ELSE [Results("GET /api/search", user, 200, found.rows, count.total)
          EXCEPT !.matchedPages =
            [k \in 1..Len(found.rows) |->
               matchedPages(GroupConcat(JoinRows(stmt.sql, stmt.params, found.rows[k],
                                                 docs, pages),
                                        found.rows[k], pages), q)]]

\* db.prepare(query).all(...params) and db.prepare(countQuery).get(...countParams)
SearchRows(user, query, stmt, docs, pages) ==
  SearchResults(user, query.q, stmt, all(stmt, docs, pages),
                get(SearchCount(user.id, query), docs, pages), docs, pages)

\* router.get('/', authenticateToken, handler) of search, over the tables
search(user, query, docs, pages) ==
  IF /\ ~Truthy(query.q) /\ ~Truthy(query.dateFrom) /\ ~Truthy(query.dateTo)
     /\ ~Truthy(query.category) /\ ~Truthy(query.hasAmount) /\ ~Truthy(query.hasDate)
  THEN Response("GET /api/search", user, NoDoc, 400)
  ELSE SearchRows(user, query, SearchStatement(user.id, query), docs, pages)

SearchDocuments(user, query) ==
  /\ res' = search(user, query, documents, document_pages)
  /\ UNCHANGED <<uploadDir, workers, users, documents, document_pages, nextDocId, nextPageId, uploads, batchOf>>

\* Mutant: the suggestions of a kind are not limited.
Unlimited(rows) == rows

\* LIMIT 5 of a statement, slice(0, 5) of an array
Limit5(rows) == SubSeq(rows, 1, Min(5, Len(rows)))

\* JSON.parse(row.tags || '[]') of a column that holds an array of strings
ParseTags(chars) ==
  IF Len(chars) <= 2 THEN <<>>
  ELSE LET items == SplitAt(SubSeq(chars, 2, Len(chars) - 1), ",")
       IN [k \in 1..Len(items) |-> SubSeq(items[k], 2, Len(items[k]) - 1)]

\* router.get('/suggestions', authenticateToken, handler), over the tables; a
\* table without ORDER BY is read in the order of its row ids. A row of
\* documents that has no tags column holds the default '[]'.
suggestions(user, q, docs, pages) ==
  IF ~Truthy(q) \/ Len(Spell(q)) < 2
  THEN Results("GET /api/search/suggestions", user, 200, <<>>, 0)
  ELSE LET RECURSIVE ascending(_)
           ascending(ids) ==
             IF ids = {} THEN <<>>
             ELSE LET d == CHOOSE i \in ids : \A j \in ids : i <= j
                  IN <<d>> \o ascending(ids \ {d})
           own == ascending({d \in DOMAIN docs : docs[d].user_id = user.id})
           needle == Pattern(q).v
           titles == [k \in 1..Len(own) |-> Spell(docs[own[k]].title)]
           titleSuggestions == Limit5(Uniq(SelectSeq(titles, LAMBDA t : Like(t, needle))))
           tagsOf(d) == IF "tags" \in DOMAIN docs[d] THEN docs[d].tags ELSE Spell("[]")
           RECURSIVE flat(_)
           flat(items) == IF items = <<>> THEN <<>> ELSE Head(items) \o flat(Tail(items))
           tags == flat([k \in 1..Len(own) |-> ParseTags(tagsOf(own[k]))])
           uniqueTags == Uniq(SelectSeq(tags, LAMBDA t : Occurs(Spell(q), t)))
           texts == flat([k \in 1..Len(own) |->
                            [j \in 1..Len(pages[own[k]]) |-> Spell(pages[own[k]][j].ocr_text)]])
           contentSuggestions ==
             Limit5(Uniq([k \in 1..Len(SelectSeq(texts, LAMBDA t : Like(t, needle))) |->
                            SubSeq(SelectSeq(texts, LAMBDA t : Like(t, needle))[k], 1,
                                   Min(100, Len(SelectSeq(texts, LAMBDA t : Like(t, needle))[k])))]))
           typed(values, type) == [k \in 1..Len(values) |-> [value |-> values[k], type |-> type]]
       IN Results("GET /api/search/suggestions", user, 200,
                  typed(titleSuggestions, "document") \o typed(Limit5(uniqueTags), "tag") \o
                  typed(contentSuggestions, "content"), 0)

Suggestions(user, q) ==
  /\ res' = suggestions(user, q, documents, document_pages)
  /\ UNCHANGED <<uploadDir, workers, users, documents, document_pages, nextDocId, nextPageId, uploads, batchOf>>

ListSelect ==
  Clause("SELECT", "d.*, GROUP_CONCAT(dp.id || '|' || dp.file_name || '|' || dp.page_order || '|' || dp.mime_type) as pages", 0)
Where1 == Clause("WHERE", "1=1", 0)
AndUserId == Clause("AND", "d.user_id = ?", 1)
AndStatus == Clause("AND", "d.status = ?", 1)
AndTitleLike == Clause("AND", "d.title LIKE ?", 1)
CountStar == Clause("SELECT", "COUNT(*) as total", 0)

\* The filters of the list after its SELECT: the role filter, then status,
\* category and search
ListFilters(select, user, query) ==
  LET l0 == [sql |-> <<select, Where1>>, params |-> <<>>]
      l1 == IF user.role = ROLES.ADMIN \/ user.role = ROLES.MANAGER
            THEN l0 ELSE Push(l0, AndUserId, <<Integer(user.id)>>)
      l2 == IF Truthy(query.status)
            THEN Push(l1, AndStatus, <<Text(Spell(query.status))>>) ELSE l1
      l3 == IF Truthy(query.category)
            THEN Push(l2, AndCategory, <<Text(Spell(query.category))>>) ELSE l2
  IN IF Truthy(query.search) THEN Push(l3, AndTitleLike, <<Pattern(query.search)>>) ELSE l3

\* router.get('/', authenticateToken, handler) of documents, over the tables
list(user, query, docs, pages) ==
  LET stmt == Push(Push(ListFilters(ListSelect, user, query), GroupById, <<>>), LimitOffset,
                   <<Integer(query.limit), Integer((query.page - 1) * query.limit)>>)
      found == all(stmt, docs, pages)
      count == get(ListFilters(CountStar, user, query), docs, pages)
  IN IF found.throws \/ count.throws
     THEN Response("GET /", user, NoDoc, 500)
     ELSE Results("GET /", user, 200, found.rows, count.total)

ListDocuments(user, query) ==
  /\ res' = list(user, query, documents, document_pages)
  /\ UNCHANGED <<uploadDir, workers, users, documents, document_pages, nextDocId, nextPageId, uploads, batchOf>>

----------------------------------------------------------------------------
(* The specification of the document routes *)

\* initDatabase: the tables are created empty; the users of the model are an
\* admin, a manager, a user and a guest.
InitialRoles ==
  [u \in UserIds |->
     CASE u = 1 -> ROLES.ADMIN [] u = 2 -> ROLES.MANAGER
       [] u = 3 -> ROLES.USER  [] u = 4 -> ROLES.GUEST]

NoResponse == Response("none", NoUser, NoDoc, 0)

Init ==
  /\ users = InitialRoles
  /\ documents = [d \in {} |-> 0]
  /\ document_pages = [d \in DocIds |-> <<>>]
  /\ nextDocId = 1
  /\ nextPageId = 1
  /\ uploadDir = {}
  /\ workers = <<>>
  /\ uploads = [d \in {} |-> 0]
  /\ res = NoResponse
  /\ batchOf = [d \in {} |-> 0]

Next ==
  \/ \E user \in ReqUsers, body \in UploadBodies, files \in Batches :
       PostDocuments(user, body, files)
  \/ \E d \in DocIds, ocrResult \in ProcessImageResults : OcrReturn(d, ocrResult)
  \/ \E user \in ReqUsers, id \in DocIds : GetDocument(user, id)
  \/ \E user \in ReqUsers, id \in DocIds, body \in EditBodies : PutDocument(user, id, body)
  \/ \E user \in ReqUsers, id \in DocIds : DeleteDocument(user, id)
  \/ \E user \in ReqUsers, id \in DocIds, pageOrder \in 1..MaxFiles :
       PutPage(user, id, pageOrder)

Spec == Init /\ [][Next]_vars

\* Every OCR call returns: the upload handler suspended at it is resumed.
SpecLive ==
  Spec /\ \A d \in DocIds : WF_vars(\E ocrResult \in ProcessImageResults : OcrReturn(d, ocrResult))

\* The document routes over a store whose writes may fail during an upload.
NextFaulty ==
  \/ Next
  \/ \E d \in DocIds : PageInsertFails(d)
  \/ \E user \in ReqUsers, id \in DocIds, n \in 0..MaxFiles : DeleteFails(user, id, n)

SpecFaulty == Init /\ [][NextFaulty]_vars

\* The administration of users: role changes, deletions, profile updates.
NextAdmin ==
  \/ \E user \in ReqUsers, id \in UserIds, role \in RoleBodies : PutUserRole(user, id, role)
  \/ \E user \in ReqUsers, id \in UserIds : DeleteUser(user, id)
  \/ \E user \in ReqUsers, status \in {200, 409} : PutProfile(user, status)

SpecAdmin == Init /\ [][NextAdmin]_vars

----------------------------------------------------------------------------
(* ocrService.recognizeText *)

\* The engine workers the service creates in a run
MaxWorkers == 6

\* What happens inside a call: fs.existsSync is false, createWorker rejects,
\* worker.recognize rejects, worker.terminate rejects, or all of them succeed.
RecognizeOutcomes ==
  {"file missing", "createWorker rejects", "recognize rejects", "terminate rejects",
   "recognized"}

\* async recognizeText(imagePath, onProgress), from its call to its return: a
\* worker exists once createWorker has resolved, and worker.terminate() is
\* the statement after worker.recognize in the try block; the catch returns
\* the failure.
RecognizeText(outcome) ==
  /\ Len(workers) < MaxWorkers
  /\ workers' = CASE outcome \in {"file missing", "createWorker rejects"} -> workers
                  [] outcome \in {"recognize rejects", "terminate rejects"} ->
                       Append(workers, "live")
                  [] outcome = "recognized" -> Append(workers, "terminated")
  /\ UNCHANGED <<uploadDir, users, documents, document_pages, nextDocId, nextPageId, uploads,
                 res, batchOf>>

NextOcr == \E outcome \in RecognizeOutcomes : RecognizeText(outcome)

SpecOcr == Init /\ [][NextOcr]_vars

----------------------------------------------------------------------------
(* The specification of the bulk reads: search and list over ingested documents *)

MaxSearchDocs == 2
SearchDocIds == 1..MaxSearchDocs

\* The users who upload: a manager and a user.
Uploaders == {2, 3}

SearchUploadBodies ==
  [title : {Undefined}, description : {Undefined}, category : {Undefined, "finance"}]

\* The texts of the pages the bulk reads look at: an amount, and a date in ISO
\* form
SearchOcrTexts == {"100 USD", "2024-01-02"}

ImageFile(k) == [filename |-> k, ext |-> ".png", mimetype |-> "image/png"]

\* req.query of search; page and limit after parseInt
SearchQueries ==
  {query \in [q : {Undefined, "usd"},
              type : {Undefined, "content", "document", "metadata"},
              category : {Undefined, "general"},
              dateFrom : {Undefined, "2024-01-02"},
              dateTo : {Undefined, "2024-01-02"},
              hasAmount : {Undefined, "true"},
              hasDate : {Undefined, "true"},
              page : {1, 2},
              limit : {1, 20}] :
     /\ query.q = Undefined => query.type = Undefined
     /\ query.page = 2 <=> query.limit = 1}

\* req.query of the list
ListQueries ==
  {query \in [status : {Undefined, "ready"},
              category : {Undefined, "general"},
              search : {Undefined, "jour"},
              page : {1, 2},
              limit : {1, 10}] :
     query.page = 2 <=> query.limit = 1}

\* The store after MaxSearchDocs uploads of one image each have ended.
InitSearch ==
  \E owner \in [SearchDocIds -> Uploaders],
     body \in [SearchDocIds -> SearchUploadBodies],
     ocrResult \in [SearchDocIds -> processImage(SearchOcrTexts)] :
    /\ users = InitialRoles
    /\ documents = [d \in SearchDocIds |->
                      [NewDocument(owner[d], body[d], Timestamps[d]) EXCEPT !.status = "ready"]]
    /\ document_pages = [d \in SearchDocIds |->
                           <<PageRow(d, d, ImageFile(d), 0, ocrResult[d])>>]
    /\ nextDocId = MaxSearchDocs + 1
    /\ nextPageId = MaxSearchDocs + 1
    /\ uploadDir = {<<d, ImageFile(d).filename>> : d \in SearchDocIds}
    /\ workers = <<>>
    /\ uploads = [d \in {} |-> 0]
    /\ res = NoResponse
    /\ batchOf = [d \in SearchDocIds |-> <<ImageFile(d)>>]

\* The reads leave the tables alone and no answer depends on an earlier one:
\* every (store, answer) is reached by one request from the store.
NextSearch ==
  \/ /\ res = NoResponse
     /\ \E user \in ReqUsers, query \in SearchQueries : SearchDocuments(user, query)
  \/ /\ res = NoResponse
     /\ \E user \in ReqUsers, query \in ListQueries : ListDocuments(user, query)

SpecSearch == InitSearch /\ [][NextSearch]_vars

\* OCR texts with and without the separators of GROUP_CONCAT
\* The most documents of the autocomplete store: one more than a kind of
\* suggestion holds
MaxSuggestDocs == 6
SuggestDocIds == 1..MaxSuggestDocs

\* The text a document is given as title, as OCR text of its page and among
\* the tags of document 1; the OCR text of document 1 is longer than a snippet.
SuggestTexts ==
  <<"usd 1", "usd 2", "usd 3", "usd 4", "usd 5", "usd 6", "usd 7">>
LongOcrText ==
  "usd----------------------------------------------------------------------------------------------------"

\* req.query.q of the autocomplete
SuggestQueries == {Undefined, "", "u", "usd"}

\* The store after MaxSuggestDocs uploads of one image each: the documents up
\* to given carry their text as title and on their page, document 1 has been
\* given all the texts as tags by an edit; the others are as in InitSearch.
InitSuggest ==
  \E given \in 0..MaxSuggestDocs :
    LET text(d) == IF d > given THEN "100 USD" ELSE IF d = 1 THEN LongOcrText
                   ELSE SuggestTexts[d]
        body(d) == [title |-> IF d > given THEN Undefined ELSE SuggestTexts[d],
                    description |-> Undefined, category |-> Undefined]
        tags(d) == IF d = 1 /\ given > 0
                   THEN JsonArray([k \in SuggestDocIds |-> Spell(SuggestTexts[k])])
                   ELSE Spell("[]")
        ocrResult(d) == CHOOSE r \in processImage({text(d)}) : r.success
    IN /\ users = InitialRoles
       /\ document_pages = [d \in SuggestDocIds |->
                              <<PageRow(d, d, ImageFile(d), 0, ocrResult(d))>>]
       /\ \E owner \in [SuggestDocIds -> Uploaders] :
            documents = [d \in SuggestDocIds |->
                           Merge([NewDocument(owner[d], body(d), Timestamps[1])
                                    EXCEPT !.status = "ready"], [tags |-> tags(d)])]
       /\ nextDocId = MaxSuggestDocs + 1
       /\ nextPageId = MaxSuggestDocs + 1
       /\ uploadDir = {<<d, ImageFile(d).filename>> : d \in SuggestDocIds}
       /\ workers = <<>>
       /\ uploads = [d \in {} |-> 0]
       /\ res = NoResponse
       /\ batchOf = [d \in SuggestDocIds |-> <<ImageFile(d)>>]

NextSuggest ==
  /\ res = NoResponse
  /\ \E user \in ReqUsers, q \in SuggestQueries : Suggestions(user, q)

SpecSuggest == InitSuggest /\ [][NextSuggest]_vars

HighlightOcrTexts == {"100 USD", "1,5 USD"}

\* The requests that carry q and no other filter
HighlightQueries ==
  {query \in SearchQueries :
     /\ Truthy(query.q)
     /\ ~Truthy(query.category) /\ ~Truthy(query.dateFrom) /\ ~Truthy(query.dateTo)
     /\ ~Truthy(query.hasAmount) /\ ~Truthy(query.hasDate)}

\* The store after MaxSearchDocs uploads of one image each, over HighlightOcrTexts
InitHighlight ==
  \E owner \in [SearchDocIds -> Uploaders],
     ocrResult \in [SearchDocIds -> processImage(HighlightOcrTexts)] :
    /\ users = InitialRoles
    /\ documents = [d \in SearchDocIds |->
                      [NewDocument(owner[d], CHOOSE body \in UploadBodies : TRUE, Timestamps[d])
                         EXCEPT !.status = "ready"]]
    /\ document_pages = [d \in SearchDocIds |->
                           <<PageRow(d, d, ImageFile(d), 0, ocrResult[d])>>]
    /\ nextDocId = MaxSearchDocs + 1
    /\ nextPageId = MaxSearchDocs + 1
    /\ uploadDir = {<<d, ImageFile(d).filename>> : d \in SearchDocIds}
    /\ workers = <<>>
    /\ uploads = [d \in {} |-> 0]
    /\ res = NoResponse
    /\ batchOf = [d \in SearchDocIds |-> <<ImageFile(d)>>]

NextHighlight ==
  /\ res = NoResponse
  /\ \E user \in ReqUsers, query \in HighlightQueries : SearchDocuments(user, query)

SpecHighlight == InitHighlight /\ [][NextHighlight]_vars

----------------------------------------------------------------------------
(* Properties of the document routes *)

DocOps == {"GET /:id", "PUT /:id", "DELETE /:id", "PUT /:id/pages/:pageId"}

\* Document d has a page for every file of its upload batch.
HasAllPages(d, pages) ==
  /\ Len(pages[d]) = Len(batchOf[d])
  /\ \A k \in 1..Len(batchOf[d]) :
       \E j \in 1..Len(pages[d]) : pages[d][j].file_name = batchOf[d][k].filename

\* The upload that created d has ended.
Ingested(d) == d \in DOMAIN documents /\ d \notin DOMAIN uploads

NotOwnerRequest(roles) ==
  /\ res' # res
  /\ res'.op \in DocOps
  /\ res'.user.role \in roles
  /\ ~(res'.doc \in DOMAIN documents /\ documents[res'.doc].user_id = res'.user.id)

C7_ActorCarriesStoredRole ==
  res.op # "none" =>
    res.user.role \in RoleSet /\ res.user.role = users[res.user.id]

FlagsResolved(row) ==
  /\ row.extracted_data.ocrAttempted \in BOOLEAN
  /\ row.extracted_data.ocrSuccess \in BOOLEAN
  /\ row.extracted_data.ocrSuccess => row.extracted_data.ocrAttempted

OcrPending(d, j) == d \in DOMAIN uploads /\ uploads[d].i + 1 = j

EntityFields == {"dates", "amounts", "emails", "phones", "keywords"}
PageFlags == {"isPdf", "isWord", "ocrAttempted", "ocrSuccess"}

C23_PermissionByExplicitRole ==
  LET ownOnes == {"documents:view_own", "documents:create", "documents:edit_own",
                  "documents:delete_own"}
      held(role) ==
        CASE role = "admin" -> PermissionNames
          [] role = "manager" ->
               ownOnes \cup {"documents:view_all", "documents:edit_all", "users:view", "stats:view"}
          [] role = "user" -> ownOnes
          [] OTHER -> {}
  IN /\ \A permission \in PermissionNames \cup {"documents:share"} :
          ~hasPermission(NoUser, permission)
     /\ \A user \in ReqUsers :
          \A permission \in PermissionNames \cup {"documents:share"} :
            hasPermission(user, permission) <=> permission \in held(user.role)

\* A guest has asked for an upload and checkPermission has refused it.
C23_Witness ==
  res.op = "POST /" /\ res.user.role = ROLES.GUEST /\ res.status = 403

\* C24: when recognizeText has returned, every engine worker it created has
\* been terminated, whether it returned a success or a failure; no worker is
\* live after any sequence of calls.
C24_WorkersTerminated ==
  \A k \in 1..Len(workers) : workers[k] = "terminated"

\* C25: none of the lists dates, amounts, emails, phones and keywords that the
\* extractor gives for the text of a page holds the same string twice.
C25_NoDuplicateEntities ==
  \A d \in DocIds : \A j \in 1..Len(document_pages[d]) :
    LET metadata == extractMetadata(Spell(document_pages[d][j].ocr_text))
    IN \A field \in {"dates", "amounts", "emails", "phones", "keywords"} :
         \A a, b \in 1..Len(metadata[field]) :
           metadata[field][a] = metadata[field][b] => a = b

----------------------------------------------------------------------------
(* Properties of the bulk reads *)

Elevated(user) == user.role \in {ROLES.ADMIN, ROLES.MANAGER}

\* The ids of a result list
Ids(rows) == {rows[j] : j \in 1..Len(rows)}

\* C4: every document that search returns to an actor whose role is neither admin
\* nor manager is owned by the actor, whatever q, type, category, dateFrom,
\* dateTo, hasAmount and hasDate are.
C4_SearchOwnerScope ==
  (res.op = "GET /api/search" /\ ~Elevated(res.user)) =>
    \A d \in Ids(res.rows) : documents[d].user_id = res.user.id

\* C4 witness: search answered a user with a document of theirs while a document
\* of another owner, in the same category, was left out.
C4_Witness ==
  /\ res.op = "GET /api/search" /\ res.status = 200 /\ res.user.role = ROLES.USER
  /\ Ids(res.rows) # {}
  /\ \E d \in DOMAIN documents \ Ids(res.rows), e \in Ids(res.rows) :
       /\ documents[d].user_id # res.user.id
       /\ documents[d].category = documents[e].category

\* A request that filters by category only: of search, and of the list
CategorySearch(c) ==
  [q |-> Undefined, type |-> Undefined, category |-> c, dateFrom |-> Undefined,
   dateTo |-> Undefined, hasAmount |-> Undefined, hasDate |-> Undefined,
   page |-> 1, limit |-> 20]
CategoryList(c) ==
  [status |-> Undefined, category |-> c, search |-> Undefined, page |-> 1, limit |-> 10]

\* C8: for every actor and category, the list and search return the same
\* documents: those of the category of every owner for an admin or a manager,
\* those of the category the actor owns for every other actor.
C8_SameOwnerScope ==
  \A user \in ReqUsers, c \in {"general", "finance"} :
    LET inScope == {d \in DOMAIN documents :
                      /\ documents[d].category = c
                      /\ Elevated(user) \/ documents[d].user_id = user.id}
    IN /\ Ids(list(user, CategoryList(c), documents, document_pages).rows) = inScope
       /\ Ids(search(user, CategorySearch(c), documents, document_pages).rows) = inScope

\* The documents the query of search selects before LIMIT and OFFSET
Selected(user, query) ==
  LET stmt == SearchStatement(user.id, query)
  IN Groups(stmt.sql, stmt.params, documents, document_pages)

\* C18: whenever search answers 200, for every actor and every combination of
\* q, type, category, dateFrom, dateTo, hasAmount and hasDate, the total of
\* the pagination is the number of documents its query selects.
C18_TotalCountsSelected ==
  \A user \in ReqUsers, query \in SearchQueries :
    LET answer == search(user, query, documents, document_pages)
    IN answer.status = 200 => answer.total = Cardinality(Selected(user, query))

\* The requests that carry q, with type absent (all), document or content, and
\* no other filter
TextQueries ==
  {query \in SearchQueries :
     /\ Truthy(query.q) /\ query.type \in {Undefined, "document", "content"}
     /\ ~Truthy(query.category) /\ ~Truthy(query.dateFrom) /\ ~Truthy(query.dateTo)
     /\ ~Truthy(query.hasAmount) /\ ~Truthy(query.hasDate)
     /\ query.page = 1}

\* q occurs in the title, the description or the tags (tags is '[]' after an
\* upload) when type is all or document, in the OCR text of a page when type
\* is all or content
MatchesText(query, d) ==
  LET searchType == IF Truthy(query.type) THEN query.type ELSE "all"
      q == Spell(query.q)
  IN \/ /\ searchType \in {"all", "document"}
        /\ \/ Occurs(q, Spell(documents[d].title))
           \/ Occurs(q, Spell(documents[d].description))
           \/ Occurs(q, Spell("[]"))
     \/ /\ searchType \in {"all", "content"}
        /\ \E j \in 1..Len(document_pages[d]) : Occurs(q, Spell(document_pages[d][j].ocr_text))

\* C19: search with q alone answers an actor that is neither admin nor manager
\* with exactly the documents the actor owns in which q occurs: in title,
\* description or tags for type all or document, in the OCR text of a page for
\* type all or content.
C19_TextQueryMatches ==
  \A user \in {u \in ReqUsers : ~Elevated(u)}, query \in TextQueries :
    LET answer == search(user, query, documents, document_pages)
    IN /\ answer.status = 200
       /\ Ids(answer.rows) =
            {d \in DOMAIN documents : documents[d].user_id = user.id /\ MatchesText(query, d)}

\* The requests with hasAmount or hasDate and without q
EntityQueries ==
  {query \in SearchQueries :
     /\ ~Truthy(query.q) /\ query.page = 1
     /\ query.hasAmount = "true" \/ query.hasDate = "true"}

\* The document passes the category and date filters the request gives
OtherFilters(query, d) ==
  /\ Truthy(query.category) => documents[d].category = query.category
  /\ Truthy(query.dateFrom) =>
       TextLeq(Spell(query.dateFrom), Spell(documents[d].created_at))
  /\ Truthy(query.dateTo) =>
       TextLeq(Spell(documents[d].created_at), Spell(query.dateTo))

\* The Entity Extractor finds an entity of the field in the text of a page
HasEntity(d, field) ==
  \E j \in 1..Len(document_pages[d]) :
    extractMetadata(Spell(document_pages[d][j].ocr_text))[field] # <<>>

\* C20: search with hasAmount (hasDate) and without q answers an actor that is
\* neither admin nor manager with exactly the documents the actor owns that
\* pass the other filters and have a page with an amount (a date); both are
\* required when both flags are set.
C20_EntityFlagsMatch ==
  \A user \in {u \in ReqUsers : ~Elevated(u)}, query \in EntityQueries :
    LET answer == search(user, query, documents, document_pages)
    IN /\ answer.status = 200
       /\ Ids(answer.rows) =
            {d \in DOMAIN documents :
               /\ documents[d].user_id = user.id
               /\ OtherFilters(query, d)
               /\ query.hasAmount = "true" => HasEntity(d, "amounts")
               /\ query.hasDate = "true" => HasEntity(d, "dates")}

\* C21: every page of a returned document whose OCR text contains q, the case
\* of letters aside, has an entry in matchedPages with its page order and the
\* highlight that is the text from max(0, i - 50) to min(length, i + |q| + 50),
\* i being the index of the first occurrence; no other page has an entry.
C21_HighlightsEveryMatchingPage ==
  \A user \in ReqUsers, query \in HighlightQueries :
    LET answer == search(user, query, documents, document_pages)
        q == Spell(query.q)
    IN answer.status = 200 =>
         \A k \in 1..Len(answer.rows) :
           \A j \in 1..Len(document_pages[answer.rows[k]]) :
             LET page == document_pages[answer.rows[k]][j]
                 text == Spell(page.ocr_text)
                 at == {i \in 0..(Len(text) - Len(q)) :
                          \A m \in 1..Len(q) : Lower(text[i + m]) = Lower(q[m])}
                 i == CHOOSE a \in at : \A b \in at : a <= b
                 from == IF i - 50 > 0 THEN i - 50 ELSE 0
                 to == Min(Len(text), i + Len(q) + 50)
                 entries == {m \in 1..Len(answer.matchedPages[k]) :
                               answer.matchedPages[k][m].pageOrder = page.page_order}
             IN IF Occurs(q, text)
                THEN \E m \in entries :
                       answer.matchedPages[k][m].highlights = <<SubSeq(text, from + 1, to)>>
                ELSE entries = {}

\* C22: the autocomplete answers success with no suggestion when q is absent,
\* empty or one character long; otherwise it gives at most 5 titles, at most 5
\* distinct tags and at most 5 snippets of OCR text of at most 100 characters,
\* each marked document, tag or content, each containing q and each taken from
\* a document the actor owns.
C22_SuggestionsBoundedAndOwned ==
  \A user \in ReqUsers, q \in SuggestQueries :
    LET answer == suggestions(user, q, documents, document_pages)
        kind(type) == SelectSeq(answer.rows, LAMBDA r : r.type = type)
        own == {d \in DOMAIN documents : documents[d].user_id = user.id}
    IN /\ answer.status = 200
       /\ IF ~Truthy(q) \/ Len(Spell(q)) < 2 THEN answer.rows = <<>>
          ELSE /\ \A k \in 1..Len(answer.rows) :
                    answer.rows[k].type \in {"document", "tag", "content"}
               /\ Len(kind("document")) <= 5
               /\ \A k \in 1..Len(kind("document")) :
                    /\ Occurs(Spell(q), kind("document")[k].value)
                    /\ \E d \in own : Spell(documents[d].title) = kind("document")[k].value
               /\ Len(kind("tag")) <= 5
               /\ \A k \in 1..Len(kind("tag")) :
                    /\ Occurs(Spell(q), kind("tag")[k].value)
                    /\ \A m \in 1..(k - 1) : kind("tag")[m].value # kind("tag")[k].value
                    /\ \E d \in own : \E t \in 1..Len(ParseTags(documents[d].tags)) :
                         ParseTags(documents[d].tags)[t] = kind("tag")[k].value
               /\ Len(kind("content")) <= 5
               /\ \A k \in 1..Len(kind("content")) :
                    /\ Len(kind("content")[k].value) <= 100
                    /\ \E d \in own : \E j \in 1..Len(document_pages[d]) :
                         LET text == Spell(document_pages[d][j].ocr_text)
                         IN /\ Occurs(Spell(q), text)
                            /\ kind("content")[k].value = SubSeq(text, 1, Min(100, Len(text)))

\* The actor owns six documents that match by title, six tags and six pages
\* that match, one of them longer than 100 characters: five of each kind are
\* suggested and the long text is cut.
C22_Witness ==
  /\ res.op = "GET /api/search/suggestions"
  /\ Cardinality({d \in DOMAIN documents :
                    /\ documents[d].user_id = res.user.id
                    /\ documents[d].title \in {SuggestTexts[k] : k \in 1..Len(SuggestTexts)}})
       = MaxSuggestDocs
  /\ \A type \in {"document", "tag", "content"} :
       Cardinality({k \in 1..Len(res.rows) : res.rows[k].type = type}) = 5
  /\ \E k \in 1..Len(res.rows) :
       res.rows[k].type = "content" /\ Len(res.rows[k].value) = 100

====
